---- MODULE Spec2Model ----
(***************************************************************************)
(* A model of the lnurl package: the bech32 LNURL codec of lnurl/tools.py  *)
(* and the response classes and LnurlResponse.from_dict of                 *)
(* lnurl/models.py.                                                        *)
(*                                                                         *)
(* Python values are modelled as follows.  A str is a sequence of code     *)
(* points (integers); a list is a sequence; None, where a function may     *)
(* return it, is the "ok = FALSE" case of a record.  An exception is a     *)
(* record [kind |-> "raise", exc |-> <class name>, ...].                   *)
(***************************************************************************)
EXTENDS Integers, Sequences, FiniteSets, TLC

VARIABLES
    url,        \* codec: the URL handed to _url_encode
    encoded,    \* codec: what _url_encode returned
    lnurl,      \* codec: the string handed to _lnurl_decode
    origin,     \* codec: where lnurl comes from
    decoded,    \* codec: the outcome of _lnurl_decode
    cpc,        \* codec: position of the caller
    d,          \* models: the caller's mapping (a dict, passed by reference)
    d_in,       \* models: the mapping as it was when the caller passed it
    result,     \* models: what the call returned or raised
    caught,     \* models: the exception from_dict's except clause caught, if any
    op,         \* models: the call that produced result
    sats,       \* models: the last reading of min_sats and max_sats
    nassign     \* models: the number of attribute assignments made

codecVars == <<url, encoded, lnurl, origin, decoded, cpc>>

modelVars == <<d, d_in, result, caught, op, sats, nassign>>

vars == <<url, encoded, lnurl, origin, decoded, cpc, d, d_in, result, caught, op, sats, nassign>>

----------------------------------------------------------------------------
(* str methods, on code points *)

\* s.lower() for a str of ASCII code points (bech32_decode calls it only on a
\* string that passed its test of the range 33..126)
lower(s) == [i \in 1..Len(s) |-> IF s[i] >= 65 /\ s[i] <= 90 THEN s[i] + 32 ELSE s[i]]

\* the parts parts[lo..hi] joined, as two halves
RECURSIVE concat(_, _, _)
concat(parts, lo, hi) ==
    IF lo > hi THEN <<>>
    ELSE IF lo = hi THEN parts[lo]
    ELSE concat(parts, lo, (lo + hi) \div 2) \o concat(parts, (lo + hi) \div 2 + 1, hi)

\* Unicode's simple uppercase mapping beyond ASCII, as runs <<lo, hi, step, delta>>:
\* the code points lo, lo + step, ..., hi have the uppercase c + delta
UpperRuns ==
    <<
      <<181, 181, 1, 743>>, <<224, 246, 1, -32>>, <<248, 254, 1, -32>>, <<255, 255, 1, 121>>,
      <<257, 303, 2, -1>>, <<305, 305, 1, -232>>, <<307, 311, 2, -1>>, <<314, 328, 2, -1>>,
      <<331, 375, 2, -1>>, <<378, 382, 2, -1>>, <<383, 383, 1, -300>>, <<384, 384, 1, 195>>,
      <<387, 389, 2, -1>>, <<392, 392, 1, -1>>, <<396, 396, 1, -1>>, <<402, 402, 1, -1>>,
      <<405, 405, 1, 97>>, <<409, 409, 1, -1>>, <<410, 410, 1, 163>>, <<414, 414, 1, 130>>,
      <<417, 421, 2, -1>>, <<424, 424, 1, -1>>, <<429, 429, 1, -1>>, <<432, 432, 1, -1>>,
      <<436, 438, 2, -1>>, <<441, 441, 1, -1>>, <<445, 445, 1, -1>>, <<447, 447, 1, 56>>,
      <<453, 453, 1, -1>>, <<454, 454, 1, -2>>, <<456, 456, 1, -1>>, <<457, 457, 1, -2>>,
      <<459, 459, 1, -1>>, <<460, 460, 1, -2>>, <<462, 476, 2, -1>>, <<477, 477, 1, -79>>,
      <<479, 495, 2, -1>>, <<498, 498, 1, -1>>, <<499, 499, 1, -2>>, <<501, 501, 1, -1>>,
      <<505, 543, 2, -1>>, <<547, 563, 2, -1>>, <<572, 572, 1, -1>>, <<575, 576, 1, 10815>>,
      <<578, 578, 1, -1>>, <<583, 591, 2, -1>>, <<592, 592, 1, 10783>>, <<593, 593, 1, 10780>>,
      <<594, 594, 1, 10782>>, <<595, 595, 1, -210>>, <<596, 596, 1, -206>>,
      <<598, 599, 1, -205>>, <<601, 601, 1, -202>>, <<603, 603, 1, -203>>,
      <<604, 604, 1, 42319>>, <<608, 608, 1, -205>>, <<609, 609, 1, 42315>>,
      <<611, 611, 1, -207>>, <<613, 613, 1, 42280>>, <<614, 614, 1, 42308>>,
      <<616, 616, 1, -209>>, <<617, 617, 1, -211>>, <<618, 618, 1, 42308>>,
      <<619, 619, 1, 10743>>, <<620, 620, 1, 42305>>, <<623, 623, 1, -211>>,
      <<625, 625, 1, 10749>>, <<626, 626, 1, -213>>, <<629, 629, 1, -214>>,
      <<637, 637, 1, 10727>>, <<640, 640, 1, -218>>, <<642, 642, 1, 42307>>,
      <<643, 643, 1, -218>>, <<647, 647, 1, 42282>>, <<648, 648, 1, -218>>,
      <<649, 649, 1, -69>>, <<650, 651, 1, -217>>, <<652, 652, 1, -71>>, <<658, 658, 1, -219>>,
      <<669, 669, 1, 42261>>, <<670, 670, 1, 42258>>, <<837, 837, 1, 84>>, <<881, 883, 2, -1>>,
      <<887, 887, 1, -1>>, <<891, 893, 1, 130>>, <<940, 940, 1, -38>>, <<941, 943, 1, -37>>,
      <<945, 961, 1, -32>>, <<962, 962, 1, -31>>, <<963, 971, 1, -32>>, <<972, 972, 1, -64>>,
      <<973, 974, 1, -63>>, <<976, 976, 1, -62>>, <<977, 977, 1, -57>>, <<981, 981, 1, -47>>,
      <<982, 982, 1, -54>>, <<983, 983, 1, -8>>, <<985, 1007, 2, -1>>, <<1008, 1008, 1, -86>>,
      <<1009, 1009, 1, -80>>, <<1010, 1010, 1, 7>>, <<1011, 1011, 1, -116>>,
      <<1013, 1013, 1, -96>>, <<1016, 1016, 1, -1>>, <<1019, 1019, 1, -1>>,
      <<1072, 1103, 1, -32>>, <<1104, 1119, 1, -80>>, <<1121, 1153, 2, -1>>,
      <<1163, 1215, 2, -1>>, <<1218, 1230, 2, -1>>, <<1231, 1231, 1, -15>>,
      <<1233, 1327, 2, -1>>, <<1377, 1414, 1, -48>>, <<4304, 4346, 1, 3008>>,
      <<4349, 4351, 1, 3008>>, <<5112, 5117, 1, -8>>, <<7296, 7296, 1, -6254>>,
      <<7297, 7297, 1, -6253>>, <<7298, 7298, 1, -6244>>, <<7299, 7300, 1, -6242>>,
      <<7301, 7301, 1, -6243>>, <<7302, 7302, 1, -6236>>, <<7303, 7303, 1, -6181>>,
      <<7304, 7304, 1, 35266>>, <<7545, 7545, 1, 35332>>, <<7549, 7549, 1, 3814>>,
      <<7566, 7566, 1, 35384>>, <<7681, 7829, 2, -1>>, <<7835, 7835, 1, -59>>,
      <<7841, 7935, 2, -1>>, <<7936, 7943, 1, 8>>, <<7952, 7957, 1, 8>>, <<7968, 7975, 1, 8>>,
      <<7984, 7991, 1, 8>>, <<8000, 8005, 1, 8>>, <<8017, 8023, 2, 8>>, <<8032, 8039, 1, 8>>,
      <<8048, 8049, 1, 74>>, <<8050, 8053, 1, 86>>, <<8054, 8055, 1, 100>>,
      <<8056, 8057, 1, 128>>, <<8058, 8059, 1, 112>>, <<8060, 8061, 1, 126>>,
      <<8112, 8113, 1, 8>>, <<8126, 8126, 1, -7205>>, <<8144, 8145, 1, 8>>,
      <<8160, 8161, 1, 8>>, <<8165, 8165, 1, 7>>, <<8526, 8526, 1, -28>>,
      <<8560, 8575, 1, -16>>, <<8580, 8580, 1, -1>>, <<9424, 9449, 1, -26>>,
      <<11312, 11359, 1, -48>>, <<11361, 11361, 1, -1>>, <<11365, 11365, 1, -10795>>,
      <<11366, 11366, 1, -10792>>, <<11368, 11372, 2, -1>>, <<11379, 11379, 1, -1>>,
      <<11382, 11382, 1, -1>>, <<11393, 11491, 2, -1>>, <<11500, 11502, 2, -1>>,
      <<11507, 11507, 1, -1>>, <<11520, 11557, 1, -7264>>, <<11559, 11559, 1, -7264>>,
      <<11565, 11565, 1, -7264>>, <<42561, 42605, 2, -1>>, <<42625, 42651, 2, -1>>,
      <<42787, 42799, 2, -1>>, <<42803, 42863, 2, -1>>, <<42874, 42876, 2, -1>>,
      <<42879, 42887, 2, -1>>, <<42892, 42892, 1, -1>>, <<42897, 42899, 2, -1>>,
      <<42900, 42900, 1, 48>>, <<42903, 42921, 2, -1>>, <<42933, 42947, 2, -1>>,
      <<42952, 42954, 2, -1>>, <<42961, 42961, 1, -1>>, <<42967, 42969, 2, -1>>,
      <<42998, 42998, 1, -1>>, <<43859, 43859, 1, -928>>, <<43888, 43967, 1, -38864>>,
      <<65345, 65370, 1, -32>>, <<66600, 66639, 1, -40>>, <<66776, 66811, 1, -40>>,
      <<66967, 66977, 1, -39>>, <<66979, 66993, 1, -39>>, <<66995, 67001, 1, -39>>,
      <<67003, 67004, 1, -39>>, <<68800, 68850, 1, -64>>, <<71872, 71903, 1, -32>>,
      <<93792, 93823, 1, -32>>, <<125218, 125251, 1, -34>>
    >>

\* Unicode's uppercase mappings to more than one code point: <<c, uppercase>>
UpperSpecial ==
    <<
      <<223, <<83, 83>>>>, <<329, <<700, 78>>>>, <<496, <<74, 780>>>>,
      <<912, <<921, 776, 769>>>>, <<944, <<933, 776, 769>>>>, <<1415, <<1333, 1362>>>>,
      <<7830, <<72, 817>>>>, <<7831, <<84, 776>>>>, <<7832, <<87, 778>>>>,
      <<7833, <<89, 778>>>>, <<7834, <<65, 702>>>>, <<8016, <<933, 787>>>>,
      <<8018, <<933, 787, 768>>>>, <<8020, <<933, 787, 769>>>>, <<8022, <<933, 787, 834>>>>,
      <<8064, <<7944, 921>>>>, <<8065, <<7945, 921>>>>, <<8066, <<7946, 921>>>>,
      <<8067, <<7947, 921>>>>, <<8068, <<7948, 921>>>>, <<8069, <<7949, 921>>>>,
      <<8070, <<7950, 921>>>>, <<8071, <<7951, 921>>>>, <<8072, <<7944, 921>>>>,
      <<8073, <<7945, 921>>>>, <<8074, <<7946, 921>>>>, <<8075, <<7947, 921>>>>,
      <<8076, <<7948, 921>>>>, <<8077, <<7949, 921>>>>, <<8078, <<7950, 921>>>>,
      <<8079, <<7951, 921>>>>, <<8080, <<7976, 921>>>>, <<8081, <<7977, 921>>>>,
      <<8082, <<7978, 921>>>>, <<8083, <<7979, 921>>>>, <<8084, <<7980, 921>>>>,
      <<8085, <<7981, 921>>>>, <<8086, <<7982, 921>>>>, <<8087, <<7983, 921>>>>,
      <<8088, <<7976, 921>>>>, <<8089, <<7977, 921>>>>, <<8090, <<7978, 921>>>>,
      <<8091, <<7979, 921>>>>, <<8092, <<7980, 921>>>>, <<8093, <<7981, 921>>>>,
      <<8094, <<7982, 921>>>>, <<8095, <<7983, 921>>>>, <<8096, <<8040, 921>>>>,
      <<8097, <<8041, 921>>>>, <<8098, <<8042, 921>>>>, <<8099, <<8043, 921>>>>,
      <<8100, <<8044, 921>>>>, <<8101, <<8045, 921>>>>, <<8102, <<8046, 921>>>>,
      <<8103, <<8047, 921>>>>, <<8104, <<8040, 921>>>>, <<8105, <<8041, 921>>>>,
      <<8106, <<8042, 921>>>>, <<8107, <<8043, 921>>>>, <<8108, <<8044, 921>>>>,
      <<8109, <<8045, 921>>>>, <<8110, <<8046, 921>>>>, <<8111, <<8047, 921>>>>,
      <<8114, <<8122, 921>>>>, <<8115, <<913, 921>>>>, <<8116, <<902, 921>>>>,
      <<8118, <<913, 834>>>>, <<8119, <<913, 834, 921>>>>, <<8124, <<913, 921>>>>,
      <<8130, <<8138, 921>>>>, <<8131, <<919, 921>>>>, <<8132, <<905, 921>>>>,
      <<8134, <<919, 834>>>>, <<8135, <<919, 834, 921>>>>, <<8140, <<919, 921>>>>,
      <<8146, <<921, 776, 768>>>>, <<8147, <<921, 776, 769>>>>, <<8150, <<921, 834>>>>,
      <<8151, <<921, 776, 834>>>>, <<8162, <<933, 776, 768>>>>, <<8163, <<933, 776, 769>>>>,
      <<8164, <<929, 787>>>>, <<8166, <<933, 834>>>>, <<8167, <<933, 776, 834>>>>,
      <<8178, <<8186, 921>>>>, <<8179, <<937, 921>>>>, <<8180, <<911, 921>>>>,
      <<8182, <<937, 834>>>>, <<8183, <<937, 834, 921>>>>, <<8188, <<937, 921>>>>,
      <<64256, <<70, 70>>>>, <<64257, <<70, 73>>>>, <<64258, <<70, 76>>>>,
      <<64259, <<70, 70, 73>>>>, <<64260, <<70, 70, 76>>>>, <<64261, <<83, 84>>>>,
      <<64262, <<83, 84>>>>, <<64275, <<1348, 1350>>>>, <<64276, <<1348, 1333>>>>,
      <<64277, <<1348, 1339>>>>, <<64278, <<1358, 1350>>>>, <<64279, <<1348, 1341>>>>
    >>

\* the uppercase of one code point: a sequence of one to three code points
to_upper_full(c) ==
    IF c < 128 THEN (IF c >= 97 /\ c <= 122 THEN <<c - 32>> ELSE <<c>>)
    ELSE IF \E k \in 1..Len(UpperSpecial) : UpperSpecial[k][1] = c
    THEN UpperSpecial[CHOOSE k \in 1..Len(UpperSpecial) : UpperSpecial[k][1] = c][2]
    ELSE LET in_run(r) == c >= r[1] /\ c <= r[2] /\ (c - r[1]) % r[3] = 0
         IN IF \E k \in 1..Len(UpperRuns) : in_run(UpperRuns[k])
            THEN <<c + UpperRuns[CHOOSE k \in 1..Len(UpperRuns) : in_run(UpperRuns[k])][4]>>
            ELSE <<c>>

\* s.upper()
upper(s) ==
    IF \A i \in 1..Len(s) : s[i] < 128
    THEN [i \in 1..Len(s) |-> to_upper_full(s[i])[1]]
    ELSE concat([i \in 1..Len(s) |-> to_upper_full(s[i])], 1, Len(s))

startswith(s, p) == Len(s) >= Len(p) /\ SubSeq(s, 1, Len(p)) = p

\* s.rfind(c): the 0-based index of the last c in s, or -1
rfind(s, c) ==
    LET hits == {i \in 1..Len(s) : s[i] = c}
    IN IF hits = {} THEN -1 ELSE (CHOOSE i \in hits : \A j \in hits : j <= i) - 1

\* s.find(c): the 0-based index of the first c in s, or -1
find(s, c) ==
    LET hits == {i \in 1..Len(s) : s[i] = c}
    IN IF hits = {} THEN -1 ELSE (CHOOSE i \in hits : \A j \in hits : i <= j) - 1

\* s.replace(old, ""): every non-overlapping occurrence of old removed, left to right
RECURSIVE replace(_, _)
replace(s, old) ==
    LET hits == {i \in 1..(Len(s) - Len(old) + 1) : SubSeq(s, i, i + Len(old) - 1) = old}
    IN IF hits = {} THEN s
       ELSE LET i == CHOOSE h \in hits : \A j \in hits : h <= j
            IN SubSeq(s, 1, i - 1) \o replace(SubSeq(s, i + Len(old), Len(s)), old)

----------------------------------------------------------------------------
(* The bech32 library that tools.py imports *)

\* "qpzry9x8gf2tvdw0s3jn54khce6mua7l"
CHARSET ==
    <<113, 112, 122, 114, 121, 57, 120, 56, 103, 102, 50, 116, 118, 100, 119, 48,
      115, 51, 106, 110, 53, 52, 107, 104, 99, 101, 54, 109, 117, 97, 55, 108>>

\* bech32_decode refuses a string longer than this
Bech32MaxLen == 90

generator == <<996825010, 642813549, 513874426, 1027748829, 705979059>>

RECURSIVE Xor(_, _)
Xor(a, b) ==
    IF a = 0 THEN b
    ELSE IF b = 0 THEN a
    ELSE ((a + b) % 2) + 2 * Xor(a \div 2, b \div 2)

\* one round of bech32_polymod's loop
polymod_step(chk, value) ==
    LET top == chk \div (2^25)
        c0 == Xor((chk % (2^25)) * 32, value)
        g(i) == IF (top \div (2^i)) % 2 = 1 THEN generator[i + 1] ELSE 0
    IN Xor(Xor(Xor(Xor(Xor(c0, g(0)), g(1)), g(2)), g(3)), g(4))

\* the loop of bech32_polymod over values[lo..hi], run as two halves so that the
\* evaluation nests only logarithmically; chk is a 30-bit word, and the test on
\* the first half's result makes TLC compute it before the second half starts
RECURSIVE polymod_range(_, _, _, _)
polymod_range(chk, values, lo, hi) ==
    IF lo > hi THEN chk
    ELSE IF lo = hi THEN polymod_step(chk, values[lo])
    ELSE LET mid == (lo + hi) \div 2
             half == polymod_range(chk, values, lo, mid)
         IN IF half < 2^30 THEN polymod_range(half, values, mid + 1, hi) ELSE -1

bech32_polymod(values) == polymod_range(1, values, 1, Len(values))

bech32_hrp_expand(hrp) ==
    [i \in 1..Len(hrp) |-> hrp[i] \div 32] \o <<0>> \o [i \in 1..Len(hrp) |-> hrp[i] % 32]

bech32_verify_checksum(hrp, data) ==
    bech32_polymod(bech32_hrp_expand(hrp) \o data) = 1

bech32_create_checksum(hrp, data) ==
    LET values == bech32_hrp_expand(hrp) \o data
        polymod == Xor(bech32_polymod(values \o <<0, 0, 0, 0, 0, 0>>), 1)
    IN [i \in 1..6 |-> (polymod \div (2^(5 * (6 - i)))) % 32]

bech32_encode(hrp, data) ==
    LET combined == data \o bech32_create_checksum(hrp, data)
    IN hrp \o <<49>> \o [i \in 1..Len(combined) |-> CHARSET[combined[i] + 1]]

\* (None, None)
NoneNone == [ok |-> FALSE, hrp |-> <<>>, data |-> <<>>]

bech32_decode(bech) ==
    IF (\E i \in 1..Len(bech) : bech[i] < 33 \/ bech[i] > 126)
       \/ (lower(bech) # bech /\ upper(bech) # bech)
    THEN NoneNone
    ELSE
        LET b == lower(bech)
            pos == rfind(b, 49)
        IN IF pos < 1 \/ pos + 7 > Len(b) \/ Len(b) > Bech32MaxLen
           THEN NoneNone
           ELSE IF ~ \A i \in (pos + 2)..Len(b) : find(CHARSET, b[i]) >= 0
           THEN NoneNone
           ELSE
               LET hrp == SubSeq(b, 1, pos)
                   data == [i \in 1..(Len(b) - pos - 1) |-> find(CHARSET, b[pos + 1 + i])]
               IN IF ~ bech32_verify_checksum(hrp, data)
                  THEN NoneNone
                  ELSE [ok |-> TRUE, hrp |-> hrp, data |-> SubSeq(data, 1, Len(data) - 6)]

\* convertbits' inner loop: while bits >= tobits, emit one group
RECURSIVE convertbits_drain(_, _, _, _)
convertbits_drain(acc, bits, tobits, ret) ==
    IF bits >= tobits
    THEN convertbits_drain(acc, bits - tobits, tobits,
                           Append(ret, (acc \div (2^(bits - tobits))) % (2^tobits)))
    ELSE [bits |-> bits, ret |-> ret]

\* one round of convertbits' outer loop, on st = [ok, acc, bits, ret];
\* ok = FALSE once a value is out of range (return None)
convertbits_step(st, value, frombits, tobits) ==
    LET max_acc == 2^(frombits + tobits - 1) - 1
    IN IF ~st.ok \/ value < 0 \/ value \div (2^frombits) # 0
       THEN [ok |-> FALSE, acc |-> 0, bits |-> 0, ret |-> <<>>]
       ELSE LET acc1 == (st.acc * 2^frombits + value) % (max_acc + 1)
                out == convertbits_drain(acc1, st.bits + frombits, tobits, st.ret)
            IN [ok |-> TRUE, acc |-> acc1, bits |-> out.bits, ret |-> out.ret]

\* convertbits' outer loop over data[lo..hi], run as two halves (see polymod_range)
RECURSIVE convertbits_range(_, _, _, _, _, _)
convertbits_range(st, data, lo, hi, frombits, tobits) ==
    IF lo > hi THEN st
    ELSE IF lo = hi THEN convertbits_step(st, data[lo], frombits, tobits)
    ELSE LET mid == (lo + hi) \div 2
             half == convertbits_range(st, data, lo, mid, frombits, tobits)
         IN IF half.bits < tobits /\ Len(half.ret) >= 0
            THEN convertbits_range(half, data, mid + 1, hi, frombits, tobits)
            ELSE half

\* convertbits(data, frombits, tobits, pad): ok = FALSE stands for None
convertbits(data, frombits, tobits, pad) ==
    LET maxv == 2^tobits - 1
        st == convertbits_range([ok |-> TRUE, acc |-> 0, bits |-> 0, ret |-> <<>>],
                                data, 1, Len(data), frombits, tobits)
    IN IF ~st.ok THEN [ok |-> FALSE, ret |-> <<>>]
       ELSE IF pad
       THEN IF st.bits # 0
            THEN [ok |-> TRUE,
                  ret |-> Append(st.ret, (st.acc * 2^(tobits - st.bits)) % (maxv + 1))]
            ELSE [ok |-> TRUE, ret |-> st.ret]
       ELSE IF st.bits >= frombits \/ (st.acc * 2^(tobits - st.bits)) % (maxv + 1) # 0
       THEN [ok |-> FALSE, ret |-> <<>>]
       ELSE [ok |-> TRUE, ret |-> st.ret]

----------------------------------------------------------------------------
(* str.encode('utf-8') and bytes.decode('utf-8') *)

\* the UTF-8 bytes of one code point; <<>> for a surrogate, which cannot be encoded
utf8_of(cp) ==
    IF cp < 128 THEN <<cp>>
    ELSE IF cp < 2048 THEN <<192 + (cp \div 64), 128 + (cp % 64)>>
    ELSE IF cp >= 55296 /\ cp <= 57343 THEN <<>>
    ELSE IF cp < 65536
    THEN <<224 + (cp \div 4096), 128 + ((cp \div 64) % 64), 128 + (cp % 64)>>
    ELSE <<240 + (cp \div 262144), 128 + ((cp \div 4096) % 64), 128 + ((cp \div 64) % 64),
           128 + (cp % 64)>>

\* s.encode('utf-8'): ok = FALSE stands for UnicodeEncodeError
encode_utf8(s) ==
    IF \E i \in 1..Len(s) : utf8_of(s[i]) = <<>>
    THEN [ok |-> FALSE, bytes |-> <<>>]
    ELSE [ok |-> TRUE, bytes |-> concat([i \in 1..Len(s) |-> utf8_of(s[i])], 1, Len(s))]

cont(b) == b >= 128 /\ b <= 191

\* the length of the well-formed UTF-8 sequence starting at b[i], or 0
utf8_len(b, i) ==
    LET n == Len(b)
        b0 == b[i]
        b1 == IF i + 1 <= n THEN b[i + 1] ELSE 0
        b2 == IF i + 2 <= n THEN b[i + 2] ELSE 0
        b3 == IF i + 3 <= n THEN b[i + 3] ELSE 0
    IN IF b0 < 128 THEN 1
       ELSE IF b0 >= 194 /\ b0 <= 223 THEN (IF cont(b1) THEN 2 ELSE 0)
       ELSE IF b0 = 224 THEN (IF b1 >= 160 /\ b1 <= 191 /\ cont(b2) THEN 3 ELSE 0)
       ELSE IF b0 = 237 THEN (IF b1 >= 128 /\ b1 <= 159 /\ cont(b2) THEN 3 ELSE 0)
       ELSE IF b0 >= 225 /\ b0 <= 239 THEN (IF cont(b1) /\ cont(b2) THEN 3 ELSE 0)
       ELSE IF b0 = 240 THEN (IF b1 >= 144 /\ b1 <= 191 /\ cont(b2) /\ cont(b3) THEN 4 ELSE 0)
       ELSE IF b0 >= 241 /\ b0 <= 243 THEN (IF cont(b1) /\ cont(b2) /\ cont(b3) THEN 4 ELSE 0)
       ELSE IF b0 = 244 THEN (IF b1 >= 128 /\ b1 <= 143 /\ cont(b2) /\ cont(b3) THEN 4 ELSE 0)
       ELSE 0

\* the code point of the well-formed sequence of length k starting at b[i]
utf8_cp(b, i, k) ==
    IF k = 1 THEN b[i]
    ELSE IF k = 2 THEN ((b[i] % 32) * 64) + (b[i + 1] % 64)
    ELSE IF k = 3 THEN ((b[i] % 16) * 4096) + ((b[i + 1] % 64) * 64) + (b[i + 2] % 64)
    ELSE ((b[i] % 8) * 262144) + ((b[i + 1] % 64) * 4096) + ((b[i + 2] % 64) * 64)
         + (b[i + 3] % 64)

\* b.decode('utf-8'), strict: ok = FALSE stands for UnicodeDecodeError.  A byte
\* starts a character exactly if it is no continuation byte, so b is well formed
\* exactly if it is empty or starts with a character and every character's
\* sequence is well formed and ends where the next one starts.
decode_utf8(b) ==
    LET starts == {i \in 1..Len(b) : ~cont(b[i])}
        next(i) == IF \E j \in starts : j > i
                   THEN CHOOSE j \in starts : j > i /\ \A k \in starts : k > i => j <= k
                   ELSE Len(b) + 1
        nth(n) == CHOOSE i \in starts : Cardinality({j \in starts : j <= i}) = n
    IN IF Len(b) > 0 /\ 1 \notin starts
       THEN [ok |-> FALSE, str |-> <<>>]
       ELSE IF \E i \in starts : utf8_len(b, i) # next(i) - i
       THEN [ok |-> FALSE, str |-> <<>>]
       ELSE [ok |-> TRUE,
             str |-> [n \in 1..Cardinality(starts) |->
                         utf8_cp(b, nth(n), utf8_len(b, nth(n)))]]

----------------------------------------------------------------------------
(* lnurl/tools.py *)

\* "lightning:", "lnurl", "None"
LIGHTNING == <<108, 105, 103, 104, 116, 110, 105, 110, 103, 58>>
LNURL_HRP == <<108, 110, 117, 114, 108>>
NONE_STR == <<78, 111, 110, 101>>
INVALID_HRP == "Invalid Human Readable Prefix (HRP): {hrp}."
INVALID_LNURL == "Invalid LNURL."
INVALID_URL == "Invalid URL."

Returned(v) == [kind |-> "return", val |-> v, exc |-> "", msg |-> "", arg |-> <<>>]
Raised(e, m, a) == [kind |-> "raise", val |-> <<>>, exc |-> e, msg |-> m, arg |-> a]

\* _bech32_decode(bech32, allowed_hrp=...): the (hrp, data) pair, or ValueError
\* whose message formats hrp (None prints as "None")
_bech32_decode(bech32, allowed_hrp) ==
    LET r == bech32_decode(bech32)
    IN IF ~r.ok
       THEN Raised("ValueError", INVALID_HRP, NONE_STR)
       ELSE IF allowed_hrp # {} /\ r.hrp \notin allowed_hrp
       THEN Raised("ValueError", INVALID_HRP, r.hrp)
       ELSE Returned([hrp |-> r.hrp, data |-> r.data])

\* a slip that regroups the data part with padding, as the encoder does
_lnurl_decode_padded(s) ==
    LET stripped == IF startswith(s, LIGHTNING) THEN replace(s, LIGHTNING) ELSE s
        r == _bech32_decode(stripped, {LNURL_HRP})
    IN IF r.kind = "raise" THEN r
       ELSE LET bits == convertbits(r.val.data, 5, 8, TRUE)
                u == decode_utf8(bits.ret)
            IN IF ~u.ok
               THEN Raised("ValueError", INVALID_LNURL, <<>>)
               ELSE Returned(u.str)

\* bytes(x).decode('utf-8') inside the try of _lnurl_decode: bytes(None) raises
\* TypeError, which the except UnicodeDecodeError clause does not catch
_lnurl_decode(s) ==
    LET stripped == IF startswith(s, LIGHTNING) THEN replace(s, LIGHTNING) ELSE s
        r == _bech32_decode(stripped, {LNURL_HRP})
    IN IF r.kind = "raise" THEN r
       ELSE LET bits == convertbits(r.val.data, 5, 8, FALSE)
            IN IF ~bits.ok
               THEN Raised("TypeError", "cannot convert 'NoneType' object to bytes", <<>>)
               ELSE LET u == decode_utf8(bits.ret)
                    IN IF ~u.ok
                       THEN Raised("ValueError", INVALID_LNURL, <<>>)
                       ELSE Returned(u.str)

_url_encode(u) ==
    LET b == encode_utf8(u)
    IN IF ~b.ok
       THEN Raised("ValueError", INVALID_URL, <<>>)
       ELSE Returned(upper(bech32_encode(LNURL_HRP, convertbits(b.bytes, 8, 5, TRUE).ret)))

----------------------------------------------------------------------------
(* Python's int and float.  An int n >= 0 is the sequence of its binary      *)
(* digits, most significant first, with no leading zero (0 is <<>>): amounts *)
(* are unbounded in Python and a model integer is not.  A float is           *)
(* [m, e], standing for m * 2^e, with m an int of at most 53 binary digits.  *)

\* Python's float: an IEEE 754 double, with 53 significant binary digits
FloatDigits == 53

\* a double is less than 2^FloatMaxExp: a division whose rounded quotient is
\* not raises OverflowError
FloatMaxExp == 1024

OVERFLOW == "integer division result too large for a float"

RECURSIVE int_of(_)
int_of(n) == IF n = 0 THEN <<>> ELSE Append(int_of(n \div 2), n % 2)

strip(bits) ==
    IF \A i \in 1..Len(bits) : bits[i] = 0 THEN <<>>
    ELSE SubSeq(bits, CHOOSE i \in 1..Len(bits) : bits[i] = 1 /\ \A j \in 1..(i - 1) : bits[j] = 0,
                Len(bits))

\* (a << k) | b, for b < 2^k
shl_or(a, k, b) == strip(a \o [i \in 1..(k - Len(b)) |-> 0] \o b)

\* a < b
int_lt(a, b) ==
    \/ Len(a) < Len(b)
    \/ /\ Len(a) = Len(b)
       /\ \E i \in 1..Len(a) : a[i] < b[i] /\ \A j \in 1..(i - 1) : a[j] = b[j]

\* a + 1
int_inc(a) ==
    IF \A i \in 1..Len(a) : a[i] = 1
    THEN <<1>> \o [i \in 1..Len(a) |-> 0]
    ELSE LET z == CHOOSE i \in 1..Len(a) : a[i] = 0 /\ \A j \in (i + 1)..Len(a) : a[j] = 1
         IN [i \in 1..Len(a) |-> IF i < z THEN a[i] ELSE IF i = z THEN 1 ELSE 0]

\* long division of the digits a[lo..hi] by the small divisor dv, continuing
\* from st = [rem, quo]; run as two halves (half ranges over the one outcome of
\* the first)
RECURSIVE divmod_range(_, _, _, _, _)
divmod_range(st, a, lo, hi, dv) ==
    IF lo > hi THEN st
    ELSE IF lo = hi
    THEN LET r == 2 * st.rem + a[lo]
         IN IF r >= dv THEN [rem |-> r - dv, quo |-> Append(st.quo, 1)]
            ELSE [rem |-> r, quo |-> Append(st.quo, 0)]
    ELSE CHOOSE r \in {divmod_range(half, a, ((lo + hi) \div 2) + 1, hi, dv) :
                          half \in {divmod_range(st, a, lo, (lo + hi) \div 2, dv)}} : TRUE

\* divmod(a, dv): [quo, rem] with a = quo * dv + rem and 0 <= rem < dv
int_divmod(a, dv) ==
    CHOOSE r \in {[quo |-> strip(st.quo), rem |-> st.rem] :
                     st \in {divmod_range([rem |-> 0, quo |-> <<>>], x, 1, Len(x), dv) :
                                x \in {a}}} : TRUE

\* a / dv for an int a and a small int dv (int.__truediv__): the double nearest
\* to the exact quotient, ties to the even mantissa, as [exc, m, e] with
\* exc = ""; exc = "OverflowError" when that double would be 2^FloatMaxExp or
\* more.  The quotient of a * 2^sh by dv has more than FloatDigits + 1 digits
\* when 2^sh >= dv * 2^(FloatDigits+1), so its first FloatDigits digits, the
\* next one and whether any later digit or the remainder is non-zero decide
\* the rounding (qr ranges over the one value of that quotient).
int_truediv(a, dv) ==
    IF a = <<>> THEN [exc |-> "", m |-> <<>>, e |-> 0]
    ELSE
        LET sh == FloatDigits + 1 + Len(int_of(dv))
            rounded(qr) ==
                LET q == qr.quo
                    n == Len(q)
                    m0 == SubSeq(q, 1, FloatDigits)
                    guard == q[FloatDigits + 1]
                    sticky == qr.rem # 0 \/ \E i \in (FloatDigits + 2)..n : q[i] = 1
                    up == guard = 1 /\ (sticky \/ m0[FloatDigits] = 1)
                    m == IF up THEN int_inc(m0) ELSE m0
                    e == n - FloatDigits - sh
                IN IF Len(m) + e > FloatMaxExp
                   THEN [exc |-> "OverflowError", m |-> <<>>, e |-> 0]
                   ELSE [exc |-> "", m |-> m, e |-> e]
        IN CHOOSE r \in {rounded(qr) : qr \in {int_divmod(a \o [i \in 1..sh |-> 0], dv)}} : TRUE

\* str() works in limbs of DecimalShift decimal digits
DecimalShift == 9

DecimalBase == 10^DecimalShift

\* 2 * n + bit for the limbs ds of n in base DecimalBase: a limb doubles, takes
\* the carry of the limb to its right (1 when that limb is half the base or
\* more, the bit at the last place) and gives its own carry to the left
decimal_double(ds, bit) ==
    LET n == Len(ds)
        carry(i) == IF i = n THEN bit ELSE IF 2 * ds[i + 1] >= DecimalBase THEN 1 ELSE 0
        body == [i \in 1..n |-> ((2 * ds[i]) + carry(i)) % DecimalBase]
    IN IF n = 0 THEN (IF bit = 1 THEN <<1>> ELSE <<>>)
       ELSE IF 2 * ds[1] >= DecimalBase THEN <<1>> \o body ELSE body

\* the limbs of ds * 2^(hi - lo + 1) + the int whose binary digits are
\* a[lo..hi]; run as two halves (half ranges over the one outcome of the first)
RECURSIVE decimal_range(_, _, _, _)
decimal_range(ds, a, lo, hi) ==
    IF lo > hi THEN ds
    ELSE IF lo = hi THEN decimal_double(ds, a[lo])
    ELSE CHOOSE r \in {decimal_range(half, a, ((lo + hi) \div 2) + 1, hi) :
                          half \in {decimal_range(ds, a, lo, (lo + hi) \div 2)}} : TRUE

\* the decimal digits that the limbs ls spell, without the zeros that pad the
\* first limb
limb_digits(ls) ==
    LET digit(i) == (ls[((i - 1) \div DecimalShift) + 1]
                        \div 10^(DecimalShift - 1 - ((i - 1) % DecimalShift))) % 10
        pad == CHOOSE k \in 0..(DecimalShift - 1) :
                   digit(k + 1) # 0 /\ \A j \in 1..k : digit(j) = 0
    IN [i \in 1..((DecimalShift * Len(ls)) - pad) |-> digit(pad + i)]

\* the decimal digits of an int a > 0
decimal_digits(a) ==
    CHOOSE r \in {limb_digits(ls) : ls \in {decimal_range(<<>>, a, 1, Len(a))}} : TRUE

\* sys.get_int_max_str_digits(): str(a) refuses an int of more decimal digits
IntMaxStrDigits == 4300

\* the number of binary digits of 10^IntMaxStrDigits, the least int refused
IntMaxStrBits == 14285

INT_MAX_STR ==
    "Exceeds the limit (4300 digits) for integer string conversion; use sys.set_int_max_str_digits() to increase the limit"

\* whether a has more than IntMaxStrDigits decimal digits: its binary digits
\* decide, but for an int with as many of them as 10^IntMaxStrDigits
int_max_str_digits_exceeded(a) ==
    \/ Len(a) > IntMaxStrBits
    \/ Len(a) = IntMaxStrBits /\ Len(decimal_digits(a)) > IntMaxStrDigits

\* str(a) for an int a >= 0: its decimal digits as code points, or ValueError
\* for an int of too many digits (x ranges over the one value of a)
int_str(a) ==
    CHOOSE r \in {IF Len(x) > IntMaxStrBits THEN Raised("ValueError", INT_MAX_STR, <<>>)
                  ELSE IF x = <<>> THEN Returned(<<48>>)
                  ELSE CHOOSE t \in {IF Len(ds) > IntMaxStrDigits
                                     THEN Raised("ValueError", INT_MAX_STR, <<>>)
                                     ELSE Returned([i \in 1..Len(ds) |-> 48 + ds[i]]) :
                                         ds \in {decimal_digits(x)}} : TRUE :
                     x \in {a}} : TRUE

\* math.floor(x) for a float x >= 0
math_floor(x) ==
    IF x.e >= 0 THEN shl_or(x.m, x.e, <<>>)
    ELSE IF -x.e >= Len(x.m) THEN <<>>
    ELSE SubSeq(x.m, 1, Len(x.m) + x.e)

\* math.ceil(x) for a float x >= 0
math_ceil(x) ==
    IF x.e >= 0 THEN shl_or(x.m, x.e, <<>>)
    ELSE IF \E i \in 1..Len(x.m) : i > Len(x.m) + x.e /\ x.m[i] = 1
    THEN int_inc(math_floor(x))
    ELSE math_floor(x)

----------------------------------------------------------------------------
(* Python values in a JSON-decoded mapping: [type, val], val the code points *)
(* of a str or the digits of an int.                                         *)

Str(x) == [type |-> "str", val |-> x]
IntV(x) == [type |-> "int", val |-> x]
None == [type |-> "NoneType", val |-> <<>>]
EmptyDict == [type |-> "dict", val |-> <<>>]
EmptyList == [type |-> "list", val |-> <<>>]

\* ERROR, error, Error, OK, errors
S_ERROR == <<69, 82, 82, 79, 82>>
S_error == <<101, 114, 114, 111, 114>>
S_Error == <<69, 114, 114, 111, 114>>
S_OK == <<79, 75>>
S_errors == <<101, 114, 114, 111, 114, 115>>
\* error with an acute accent on its e, whose uppercase is not ERROR
S_error_acute == <<233, 114, 114, 111, 114>>
\* channelRequest
S_channelRequest == <<99, 104, 97, 110, 110, 101, 108, 82, 101, 113, 117, 101, 115, 116>>
\* hostedChannelRequest
S_hostedChannelRequest ==
    <<104, 111, 115, 116, 101, 100, 67, 104, 97, 110, 110, 101, 108, 82, 101, 113, 117,
      101, 115, 116>>
\* payRequest
S_payRequest == <<112, 97, 121, 82, 101, 113, 117, 101, 115, 116>>
\* withdrawRequest
S_withdrawRequest == <<119, 105, 116, 104, 100, 114, 97, 119, 82, 101, 113, 117, 101, 115, 116>>
\* login, bogus
S_login == <<108, 111, 103, 105, 110>>
S_bogus == <<98, 111, 103, 117, 115>>

\* the substring test `sub in s`
contains(s, sub) ==
    \E i \in 1..(Len(s) - Len(sub) + 1) : SubSeq(s, i, i + Len(sub) - 1) = sub

----------------------------------------------------------------------------
(* lnurl/types.py: the semantic scalar types.  Each is a validated wrapper:  *)
(* the predicate says which values validate.                                 *)

\* https://, http://, .onion, ln, "text/plain"
S_https == <<104, 116, 116, 112, 115, 58, 47, 47>>
S_http == <<104, 116, 116, 112, 58, 47, 47>>
S_onion == <<46, 111, 110, 105, 111, 110>>
S_ln == <<108, 110>>
S_text_plain == <<34, 116, 101, 120, 116, 47, 112, 108, 97, 105, 110, 34>>

\* a URL with the https scheme, or with http on a .onion host
HttpsUrl(v) ==
    /\ v.type = "str"
    /\ \/ startswith(v.val, S_https)
       \/ startswith(v.val, S_http) /\ contains(v.val, S_onion)

\* a non-negative integer amount
MilliSatoshi(v) == v.type = "int"

\* <66 hex digits>@<host>:<port>
LightningNodeUri(v) ==
    /\ v.type = "str"
    /\ Len(v.val) > 67
    /\ \A i \in 1..66 : (v.val[i] >= 48 /\ v.val[i] <= 57) \/ (v.val[i] >= 97 /\ v.val[i] <= 102)
    /\ v.val[67] = 64
    /\ \E i \in 69..Len(v.val) : v.val[i] = 58

\* a BOLT-11 invoice: its human-readable part starts with ln
LightningInvoice(v) == v.type = "str" /\ startswith(v.val, S_ln)

\* a JSON array of [type, content] pairs with a text/plain entry
LnurlPayMetadata(v) == v.type = "str" /\ contains(v.val, S_text_plain)

----------------------------------------------------------------------------
(* lnurl/models.py: the response classes.  A class is the sequence of its    *)
(* fields in declaration order: [name, alias, type, lit, required, default]. *)

Field(name, alias, type, required, default) ==
    [name |-> name, alias |-> alias, type |-> type, lit |-> <<>>,
     required |-> required, default |-> default]

Literal(name, lit) ==
    [name |-> name, alias |-> name, type |-> "Literal", lit |-> lit,
     required |-> FALSE, default |-> Str(lit)]

LnurlErrorResponse ==
    << Literal("status", S_ERROR),
       Field("reason", "reason", "str", TRUE, None) >>

LnurlSuccessResponse ==
    << Literal("status", S_OK) >>

LnurlAuthResponse ==
    << Literal("tag", S_login),
       Field("callback", "callback", "HttpsUrl", TRUE, None),
       Field("k1", "k1", "str", TRUE, None) >>

LnurlChannelResponse ==
    << Literal("tag", S_channelRequest),
       Field("uri", "uri", "LightningNodeUri", TRUE, None),
       Field("callback", "callback", "HttpsUrl", TRUE, None),
       Field("k1", "k1", "str", TRUE, None) >>

LnurlHostedChannelResponse ==
    << Literal("tag", S_hostedChannelRequest),
       Field("uri", "uri", "LightningNodeUri", TRUE, None),
       Field("k1", "k1", "str", TRUE, None),
       Field("alias", "alias", "Optional[str]", FALSE, None) >>

LnurlPayResponse ==
    << Literal("tag", S_payRequest),
       Field("callback", "callback", "HttpsUrl", TRUE, None),
       Field("min_sendable", "minSendable", "MilliSatoshi", TRUE, None),
       Field("max_sendable", "maxSendable", "MilliSatoshi", TRUE, None),
       Field("metadata", "metadata", "LnurlPayMetadata", TRUE, None) >>

LnurlPayActionResponse ==
    << Field("pr", "pr", "LightningInvoice", TRUE, None),
       Field("success_action", "successAction", "Optional[LnurlPaySuccessAction]", FALSE, None),
       Field("routes", "routes", "List[LnurlPayRoute]", FALSE, EmptyList) >>

LnurlWithdrawResponse ==
    << Literal("tag", S_withdrawRequest),
       Field("callback", "callback", "HttpsUrl", TRUE, None),
       Field("k1", "k1", "str", TRUE, None),
       Field("min_withdrawable", "minWithdrawable", "MilliSatoshi", TRUE, None),
       Field("max_withdrawable", "maxWithdrawable", "MilliSatoshi", TRUE, None),
       Field("default_description", "defaultDescription", "str", FALSE, Str(<<>>)) >>

Classes ==
    {"LnurlErrorResponse", "LnurlSuccessResponse", "LnurlAuthResponse",
     "LnurlChannelResponse", "LnurlHostedChannelResponse", "LnurlPayResponse",
     "LnurlPayActionResponse", "LnurlWithdrawResponse"}

fields_of(cls) ==
    CASE cls = "LnurlErrorResponse" -> LnurlErrorResponse
      [] cls = "LnurlSuccessResponse" -> LnurlSuccessResponse
      [] cls = "LnurlAuthResponse" -> LnurlAuthResponse
      [] cls = "LnurlChannelResponse" -> LnurlChannelResponse
      [] cls = "LnurlHostedChannelResponse" -> LnurlHostedChannelResponse
      [] cls = "LnurlPayResponse" -> LnurlPayResponse
      [] cls = "LnurlPayActionResponse" -> LnurlPayActionResponse
      [] cls = "LnurlWithdrawResponse" -> LnurlWithdrawResponse

----------------------------------------------------------------------------
(* pydantic.BaseModel, as the classes configure it: construction validates   *)
(* every field, ignores keys that are no field, and takes a field from its   *)
(* alias or, failing that, from its name (allow_population_by_field_name).   *)

\* whether v validates as the field's type; a str field takes a str and also
\* an int that str() accepts, which it turns into its decimal string; a field
\* that holds a model
\* takes a dict and also what dict(v) accepts, an empty list or an empty str
type_ok(f, v) ==
    CASE f.type = "Literal" -> v.type = "str" /\ v.val = f.lit
      [] f.type = "str" ->
            \/ v.type = "str"
            \/ v.type = "int" /\ ~int_max_str_digits_exceeded(v.val)
      [] f.type = "Optional[str]" ->
            \/ v.type \in {"str", "NoneType"}
            \/ v.type = "int" /\ ~int_max_str_digits_exceeded(v.val)
      [] f.type = "HttpsUrl" -> HttpsUrl(v)
      [] f.type = "MilliSatoshi" -> MilliSatoshi(v)
      [] f.type = "LightningNodeUri" -> LightningNodeUri(v)
      [] f.type = "LightningInvoice" -> LightningInvoice(v)
      [] f.type = "LnurlPayMetadata" -> LnurlPayMetadata(v)
      [] f.type = "Optional[LnurlPaySuccessAction]" ->
            \/ v.type \in {"dict", "NoneType"}
            \/ v.type \in {"list", "str"} /\ v.val = <<>>
      [] f.type = "List[LnurlPayRoute]" -> v.type = "list"

\* the value the field holds for a v that validates: an int given for a str
\* field becomes its decimal string, a value given for a model becomes the
\* model of dict(v), any other value stands as it is
coerce(f, v) ==
    IF f.type \in {"str", "Optional[str]"} /\ v.type = "int" THEN Str(int_str(v.val).val)
    ELSE IF f.type = "Optional[LnurlPaySuccessAction]" /\ v.type \in {"list", "str"}
    THEN EmptyDict
    ELSE v

\* the field's validated value out of the keyword arguments kw: ok = FALSE
\* when it is required and missing or does not validate
field_value(f, kw) ==
    LET key == IF f.alias \in DOMAIN kw THEN f.alias ELSE f.name
    IN IF key \in DOMAIN kw
       THEN IF type_ok(f, kw[key]) THEN [ok |-> TRUE, val |-> coerce(f, kw[key])]
            ELSE [ok |-> FALSE, val |-> kw[key]]
       ELSE [ok |-> ~f.required, val |-> f.default]

\* @validator('max_sendable') / @validator('max_withdrawable'): fails when the
\* minimum validated (is in `values`) and the value is less than it
max_less_than_min(value, min_field) ==
    min_field.ok /\ int_lt(value.val, min_field.val.val)

\* the field of cls that max_less_than_min is declared on, and the one it reads
MaxField(cls) ==
    CASE cls = "LnurlPayResponse" -> "max_sendable"
      [] cls = "LnurlWithdrawResponse" -> "max_withdrawable"
      [] OTHER -> ""

MinField(cls) ==
    CASE cls = "LnurlPayResponse" -> "min_sendable"
      [] cls = "LnurlWithdrawResponse" -> "min_withdrawable"
      [] OTHER -> ""

NoObject == [cls |-> "", fields |-> <<>>]

Ret(obj) == [kind |-> "return", obj |-> obj, exc |-> ""]
Exc(e) == [kind |-> "raise", obj |-> NoObject, exc |-> e]
NoResult == [kind |-> "none", obj |-> NoObject, exc |-> ""]

\* cls(**kw): the constructed object, or ValidationError (got ranges over the
\* one outcome of validating the fields)
construct(cls, kw) ==
    LET fs == fields_of(cls)
        names == {fs[i].name : i \in 1..Len(fs)}
        fld(n) == fs[CHOOSE i \in 1..Len(fs) : fs[i].name = n]
        bad(got, n) ==
            \/ ~got[n].ok
            \/ n = MaxField(cls) /\ max_less_than_min(got[n].val, got[MinField(cls)])
    IN CHOOSE r \in {IF \E n \in names : bad(got, n)
                     THEN Exc("ValidationError")
                     ELSE Ret([cls |-> cls, fields |-> [n \in names |-> got[n].val]]) :
                        got \in {[n \in names |-> field_value(fld(n), kw)]}} : TRUE

\* BaseModel.__setattr__ under the classes' Config (allow_mutation and
\* validate_assignment at their defaults): a field is set without validation
setattr(obj, name, value) ==
    [obj EXCEPT !.fields = [n \in DOMAIN obj.fields |-> IF n = name THEN value ELSE obj.fields[n]]]

\* the min_sats and max_sats properties of LnurlPayResponse and LnurlWithdrawResponse
\* (the division raises OverflowError, which the property does not catch, or
\* gives the float x that is rounded and returned as an int)
min_sats(obj) ==
    CHOOSE r \in {IF x.exc # "" THEN Raised(x.exc, OVERFLOW, <<>>) ELSE Returned(math_ceil(x)) :
                     x \in {int_truediv(obj.fields[MinField(obj.cls)].val, 1000)}} : TRUE

max_sats(obj) ==
    CHOOSE r \in {IF x.exc # "" THEN Raised(x.exc, OVERFLOW, <<>>) ELSE Returned(math_floor(x)) :
                     x \in {int_truediv(obj.fields[MaxField(obj.cls)].val, 1000)}} : TRUE

----------------------------------------------------------------------------
(* LnurlResponse.from_dict *)

\* d.pop(key, None)
pop(dd, key) == [k \in DOMAIN dd \ {key} |-> dd[k]]

\* d['status'].upper() on a value that is no str: AttributeError
status_raises(dd) == "status" \in DOMAIN dd /\ dd["status"].type # "str"

\* a slip that compares the status as it stands
is_error_status_exact(dd) == "status" \in DOMAIN dd /\ dd["status"].val = S_ERROR

\* 'status' in d and d['status'].upper() == 'ERROR'
is_error_status(dd) == "status" \in DOMAIN dd /\ upper(dd["status"].val) = S_ERROR

\* the outcome of indexing the dispatch dict: the class found, or the exception
Found(cls) == [cls |-> cls, exc |-> ""]
LookupError(e) == [cls |-> "", exc |-> e]

\* a value that cannot be a dict key (a dict or a list has no hash)
unhashable(v) == v.type \in {"dict", "list"}

\* the dispatch dict of from_dict indexed with d['tag']: the class for a tag of
\* the table, TypeError for a tag that has no hash, KeyError for any other
tag_table(tag) ==
    IF unhashable(tag) THEN LookupError("TypeError")
    ELSE IF tag.type # "str" THEN LookupError("KeyError")
    ELSE IF tag.val = S_channelRequest THEN Found("LnurlChannelResponse")
    ELSE IF tag.val = S_hostedChannelRequest THEN Found("LnurlHostedChannelResponse")
    ELSE IF tag.val = S_payRequest THEN Found("LnurlPayResponse")
    ELSE IF tag.val = S_withdrawRequest THEN Found("LnurlWithdrawResponse")
    ELSE LookupError("KeyError")

\* the key that the third branch of from_dict tests for
success_action_key == "success_action"

\* a slip that catches only validation errors: the others pass through
reraise_validation_only(e) == IF e = "ValidationError" THEN "LnurlResponseException" ELSE e

\* except Exception: raise LnurlResponseException
reraise(e) == "LnurlResponseException"

\* the body of from_dict's try: [d, out], d the mapping as the body leaves it
\* (d1 ranges over the one value of the mapping after the branch's update)
from_dict_try(dd) ==
    IF status_raises(dd)
    THEN [d |-> dd, out |-> Exc("AttributeError")]
    ELSE IF is_error_status(dd)
    THEN CHOOSE r \in {[d |-> d1, out |-> construct("LnurlErrorResponse", d1)] :
                          d1 \in {[dd EXCEPT !["status"] = Str(upper(dd["status"].val))]}} : TRUE
    ELSE IF "tag" \in DOMAIN dd
    THEN CHOOSE r \in {LET found == tag_table(d1["tag"])
                       IN IF found.exc # ""
                          THEN [d |-> d1, out |-> Exc(found.exc)]
                          ELSE [d |-> d1, out |-> construct(found.cls, d1)] :
                          d1 \in {pop(dd, "status")}} : TRUE
    ELSE IF success_action_key \in DOMAIN dd
    THEN [d |-> dd, out |-> construct("LnurlPayActionResponse", dd)]
    ELSE [d |-> dd, out |-> construct("LnurlSuccessResponse", dd)]

\* LnurlResponse.from_dict(d): [d, out, caught]
from_dict(dd) ==
    LET r == from_dict_try(dd)
    IN IF r.out.kind = "raise"
       THEN [d |-> r.d, out |-> Exc(reraise(r.out.exc)), caught |-> r.out.exc]
       ELSE [d |-> r.d, out |-> r.out, caught |-> ""]

----------------------------------------------------------------------------
(* The callers of models.py: a JSON-decoded mapping is classified with       *)
(* from_dict, or a class is constructed from it directly; the object is then *)
(* read (min_sats, max_sats) and assigned to.                                *)

MaxAssignments == 1

\* https://x.com/cb, http://x.com/cb, http://abc.onion/cb
S_callback == <<104, 116, 116, 112, 115, 58, 47, 47, 120, 46, 99, 111, 109, 47, 99, 98>>
S_callback_http == <<104, 116, 116, 112, 58, 47, 47, 120, 46, 99, 111, 109, 47, 99, 98>>
S_callback_onion ==
    <<104, 116, 116, 112, 58, 47, 47, 97, 98, 99, 46, 111, 110, 105, 111, 110, 47, 99, 98>>
\* c3fa, no, [["text/plain","hi"]], lnbc1p0
S_k1 == <<99, 51, 102, 97>>
S_reason == <<110, 111>>
S_metadata ==
    <<91, 91, 34, 116, 101, 120, 116, 47, 112, 108, 97, 105, 110, 34, 44, 34, 104, 105, 34,
      93, 93>>
S_pr == <<108, 110, 98, 99, 49, 112, 48>>
\* 02 ab..ab (32 times) @h:9
S_uri == <<48, 50>> \o [i \in 1..64 |-> IF i % 2 = 1 THEN 97 ELSE 98] \o <<64, 104, 58, 57>>

\* a key the mapping does not have
Absent == [type |-> "absent", val |-> <<>>]

\* the mapping with the given values under the protocol's keys: uri with a
\* channel tag, metadata with the pay tag; the same amounts stand under the Pay
\* and the Withdraw keys; `action` names the key of the success action ("" for
\* none) and `act` is the value under it
Payload(status, tag, reason, callback, k1, pr, action, act, amin, amax) ==
    LET channel == tag.type = "str" /\ tag.val \in {S_channelRequest, S_hostedChannelRequest}
        pay == tag.type = "str" /\ tag.val = S_payRequest
        all == [status |-> status, tag |-> tag, reason |-> reason, callback |-> callback,
                k1 |-> k1,
                uri |-> IF channel THEN Str(S_uri) ELSE Absent,
                metadata |-> IF pay THEN Str(S_metadata) ELSE Absent,
                pr |-> pr, minSendable |-> amin, maxSendable |-> amax,
                minWithdrawable |-> amin, maxWithdrawable |-> amax,
                success_action |-> IF action = "success_action" THEN act ELSE Absent,
                successAction |-> IF action = "successAction" THEN act ELSE Absent]
    IN [k \in {x \in DOMAIN all : all[x].type # "absent"} |-> all[k]]

StatusValues ==
    {Absent, None, Str(S_ERROR), Str(S_error), Str(S_Error), Str(S_OK), Str(S_errors),
     Str(S_error_acute)}

TagValues ==
    {Absent, None, EmptyDict, EmptyList, Str(S_channelRequest), Str(S_hostedChannelRequest),
     Str(S_payRequest), Str(S_withdrawRequest), Str(S_login), Str(S_bogus)}

\* a reason and a k1 as a str, and as the number a service may send in its place
ReasonValues == {Absent, Str(S_reason), IntV(int_of(5))}

K1Values == {Str(S_k1), IntV(int_of(7))}

\* 2^IntMaxStrBits: an int that str() refuses
TooLong == shl_or(<<1>>, IntMaxStrBits, <<>>)

\* a success action as a dict, and as the other values a service may send
ActionValues == {EmptyDict, EmptyList, Str(<<>>), Str(S_reason), IntV(int_of(5)), None}

CallbackValues == {Absent, Str(S_callback), Str(S_callback_http), Str(S_callback_onion)}

\* 2^44 * 1000 + r: the least amounts whose thousandth has no exact double
Large(r) == shl_or(int_of(1000), 44, int_of(r))

\* 2^FloatMaxExp * 1000: the least amount whose thousandth is beyond every double
Huge == shl_or(int_of(1000), FloatMaxExp, <<>>)

Amounts ==
    {IntV(int_of(0)), IntV(int_of(1000)), IntV(int_of(1500)), IntV(int_of(2999)),
     IntV(Large(1)), IntV(Large(999)), IntV(Huge)}

Payloads ==
    {Payload(st, tg, rs, cb, Str(S_k1), pr, ac, EmptyDict, IntV(int_of(1000)), IntV(int_of(2000))) :
        st \in StatusValues, tg \in TagValues \ {EmptyDict, EmptyList},
        rs \in ReasonValues \ {IntV(int_of(5))},
        cb \in CallbackValues, pr \in {Absent, Str(S_pr)},
        ac \in {"", "success_action", "successAction"}}
    \cup
    {Payload(st, tg, rs, Str(S_callback), k1, Absent, ac, EmptyDict, IntV(int_of(1000)),
             IntV(int_of(2000))) :
        st \in StatusValues, tg \in TagValues, rs \in ReasonValues, k1 \in K1Values,
        ac \in {"", "success_action"}}
    \cup
    {Payload(st, Absent, Absent, Str(S_callback), Str(S_k1), pr, ac, av, IntV(int_of(1000)),
             IntV(int_of(2000))) :
        st \in {Absent, Str(S_OK)}, pr \in {Absent, Str(S_pr)},
        ac \in {"success_action", "successAction"}, av \in ActionValues}
    \cup
    {Payload(c[1], c[2], c[3], Str(S_callback), c[4], Absent, "", EmptyDict,
             IntV(int_of(1000)), IntV(int_of(2000))) :
        c \in {<<Absent, Str(S_withdrawRequest), Absent, IntV(TooLong)>>,
               <<Absent, Str(S_payRequest), Absent, IntV(TooLong)>>,
               <<Str(S_error), Absent, IntV(TooLong), Str(S_k1)>>,
               <<Str(S_ERROR), Str(S_payRequest), IntV(TooLong), Str(S_k1)>>}}
    \cup
    {Payload(Absent, tg, Absent, Str(S_callback), k1, Absent, "", EmptyDict, lo, hi) :
        tg \in {Str(S_payRequest), Str(S_withdrawRequest)}, k1 \in K1Values,
        lo \in Amounts \cup {Absent, None}, hi \in Amounts \cup {Absent}}

NoReading == [kind |-> "none", val |-> <<>>, exc |-> "", msg |-> "", arg |-> <<>>]

NotRead ==
    [read |-> FALSE, min |-> NoReading, max |-> NoReading, minimum |-> <<>>, maximum |-> <<>>]

\* the codec is not in use
CodecIdle ==
    /\ url = <<>>
    /\ encoded = [kind |-> "none", val |-> <<>>, exc |-> "", msg |-> "", arg |-> <<>>]
    /\ lnurl = <<>>
    /\ origin = "none"
    /\ decoded = [kind |-> "none", val |-> <<>>, exc |-> "", msg |-> "", arg |-> <<>>]
    /\ cpc = "idle"

Init ==
    /\ CodecIdle
    /\ d \in Payloads
    /\ d_in = d
    /\ result = NoResult
    /\ caught = ""
    /\ op = "none"
    /\ sats = NotRead
    /\ nassign = 0

\* r = LnurlResponse.from_dict(d)
FromDict ==
    /\ op = "none"
    /\ \E r \in {from_dict(d)} :
          /\ d' = r.d
          /\ result' = r.out
          /\ caught' = r.caught
    /\ op' = "from_dict"
    /\ UNCHANGED <<d_in, sats, nassign>>
    /\ UNCHANGED codecVars

\* r = cls(**d)
Construct(cls) ==
    /\ op = "none"
    /\ result' = construct(cls, d)
    /\ op' = "construct"
    /\ UNCHANGED <<d, d_in, caught, sats, nassign>>
    /\ UNCHANGED codecVars

\* r.name = value
SetAttr(name, value) ==
    /\ result.kind = "return"
    /\ name \in DOMAIN result.obj.fields
    /\ nassign < MaxAssignments
    /\ result' = [result EXCEPT !.obj = setattr(result.obj, name, value)]
    /\ nassign' = nassign + 1
    /\ UNCHANGED <<d, d_in, caught, op, sats>>
    /\ UNCHANGED codecVars

\* r.min_sats, r.max_sats
ReadSats ==
    /\ result.kind = "return"
    /\ result.obj.cls \in {"LnurlPayResponse", "LnurlWithdrawResponse"}
    /\ sats' = [read |-> TRUE,
                min |-> min_sats(result.obj),
                max |-> max_sats(result.obj),
                minimum |-> result.obj.fields[MinField(result.obj.cls)].val,
                maximum |-> result.obj.fields[MaxField(result.obj.cls)].val]
    /\ UNCHANGED <<d, d_in, result, caught, op, nassign>>
    /\ UNCHANGED codecVars

AmountFields == {"min_sendable", "max_sendable", "min_withdrawable", "max_withdrawable"}

AssignedAmounts == {IntV(int_of(0)), IntV(Large(999))}

Next ==
    \/ FromDict
    \/ \E cls \in Classes : Construct(cls)
    \/ \E name \in AmountFields, value \in AssignedAmounts : SetAttr(name, value)
    \/ ReadSats

Spec == Init /\ [][Next]_vars

----------------------------------------------------------------------------
(* Properties of from_dict and of the response objects, under Spec *)

\* the mapping's status equals "error" case-insensitively
ErrorStatus(m) ==
    "status" \in DOMAIN m /\ m["status"].type = "str" /\ lower(m["status"].val) = S_error

\* the mapping has no status, or a str that is not an error status
PlainStatus(m) ==
    "status" \notin DOMAIN m \/ (m["status"].type = "str" /\ lower(m["status"].val) # S_error)

Has(m, key, type) == key \in DOMAIN m /\ m[key].type = type

Returns(cls) == result.kind = "return" /\ result.obj.cls = cls

\* the mapping's reason validates: it is a str, or a number that str() accepts
ValidReason(m) ==
    \/ Has(m, "reason", "str")
    \/ Has(m, "reason", "int") /\ ~int_max_str_digits_exceeded(m["reason"].val)

TableClass(tag) ==
    CASE tag.type = "str" /\ tag.val = S_channelRequest -> "LnurlChannelResponse"
      [] tag.type = "str" /\ tag.val = S_hostedChannelRequest -> "LnurlHostedChannelResponse"
      [] tag.type = "str" /\ tag.val = S_payRequest -> "LnurlPayResponse"
      [] tag.type = "str" /\ tag.val = S_withdrawRequest -> "LnurlWithdrawResponse"
      [] OTHER -> ""

\* C2: from_dict on a mapping with a tag and no error status returns the class
\* the table gives the tag or fails; it fails for a tag outside the table; and
\* it ignores any status key: the outcome is that of the mapping without it.
C2_TagDispatch ==
    (op = "from_dict" /\ "tag" \in DOMAIN d_in /\ ~ErrorStatus(d_in))
        => /\ result.kind \in {"return", "raise"}
           /\ result.kind = "return" => result.obj.cls = TableClass(d_in["tag"])
           /\ TableClass(d_in["tag"]) = "" => result.kind = "raise"
           /\ (nassign = 0 /\ "status" \in DOMAIN d_in)
                 => result = from_dict(pop(d_in, "status")).out

\* C3: from_dict on a mapping with tag "login" and valid callback and k1 returns
\* the Auth variant.
C3_LoginIsAuth ==
    (/\ op = "from_dict"
     /\ PlainStatus(d_in)
     /\ Has(d_in, "tag", "str") /\ d_in["tag"].val = S_login
     /\ "callback" \in DOMAIN d_in /\ HttpsUrl(d_in["callback"])
     /\ Has(d_in, "k1", "str"))
        => Returns("LnurlAuthResponse")

\* C4: from_dict on a mapping with no error status and no tag constructs the
\* Pay Action variant when the mapping has a success_action or a successAction
\* key, and the bare Success variant only when it has neither.
C4_SuccessActionKeys ==
    (op = "from_dict" /\ PlainStatus(d_in) /\ "tag" \notin DOMAIN d_in /\ result.kind = "return")
        => IF "success_action" \in DOMAIN d_in \/ "successAction" \in DOMAIN d_in
           THEN result.obj.cls = "LnurlPayActionResponse"
           ELSE result.obj.cls = "LnurlSuccessResponse"

\* C5: from_dict returns an object or raises LnurlResponseException, whatever
\* failed inside it.
C5_OneFailureKind ==
    op = "from_dict"
        => \/ result.kind = "return" /\ result.obj.cls \in Classes /\ caught = ""
           \/ result.kind = "raise" /\ result.exc = "LnurlResponseException" /\ caught # ""

C5_Witness ==
    /\ op = "from_dict"
    /\ Has(d_in, "status", "NoneType")
    /\ caught = "AttributeError"
    /\ result.kind = "raise"
    /\ result.exc = "LnurlResponseException"

\* C6: every Pay and Withdraw object has maximum >= minimum, after construction
\* and after any later operation on it.
C6_RangeAlways ==
    (result.kind = "return" /\ result.obj.cls \in {"LnurlPayResponse", "LnurlWithdrawResponse"})
        => ~int_lt(result.obj.fields[MaxField(result.obj.cls)].val,
                   result.obj.fields[MinField(result.obj.cls)].val)

\* C7: from_dict leaves the caller's mapping as it was: same keys, same values.
C7_ArgumentUntouched ==
    op = "from_dict"
        => /\ DOMAIN d = DOMAIN d_in
           /\ \A k \in DOMAIN d_in : d[k] = d_in[k]

\* the exact ceiling and floor of a / 1000
ExactCeil(a) ==
    IF int_divmod(a, 1000).rem = 0 THEN int_divmod(a, 1000).quo
    ELSE int_inc(int_divmod(a, 1000).quo)

ExactFloor(a) == int_divmod(a, 1000).quo

\* C10: min_sats is the ceiling of the minimum / 1000 and max_sats the floor of
\* the maximum / 1000, for every amount.
C10_SatsExact ==
    sats.read => /\ sats.min = Returned(ExactCeil(sats.minimum))
                 /\ sats.max = Returned(ExactFloor(sats.maximum))

----------------------------------------------------------------------------
(* The codec's callers: encode a URL, or receive a string; pass it on with  *)
(* or without the lightning: scheme, possibly damaged; decode it.           *)

MaxUrlLen == 2
MaxDataLen == 2
MaxSchemePrefixes == 2

\* ' ', '/', 'a', '~': printable ASCII, the ends of its range included
UrlAlphabet == {32, 47, 97, 126}

RECURSIVE SeqsUpTo(_, _)
SeqsUpTo(S, n) ==
    IF n = 0 THEN {<<>>}
    ELSE LET shorter == SeqsUpTo(S, n - 1)
         IN shorter \cup {Append(s, x) : s \in {t \in shorter : Len(t) = n - 1}, x \in S}

\* the longest URL of one-byte characters whose encoding bech32_decode accepts:
\* hrp, separator and checksum take 12 characters, every 5 bits of the rest one
LongestFitting == ((Bech32MaxLen - 12) * 5) \div 8

\* short printable-ASCII URLs; URLs at and just past the length bech32_decode
\* accepts; a two-byte character; a lone surrogate
Urls ==
    SeqsUpTo(UrlAlphabet, MaxUrlLen)
    \cup {[i \in 1..n |-> 97] : n \in {LongestFitting, LongestFitting + 1}}
    \cup {<<97, 233>>, <<55296>>}

\* strings another party made with bech32_encode, in either case
ForeignStrings ==
    LET made == {bech32_encode(h, dd) : h \in {LNURL_HRP, <<98, 99>>},
                                        dd \in SeqsUpTo({0, 1, 24}, MaxDataLen)}
    IN made \cup {upper(m) : m \in made}

\* 'q' and 'Q'
DamageChars == {113, 81}

NotCalled == [kind |-> "none", val |-> <<>>, exc |-> "", msg |-> "", arg |-> <<>>]

\* the response classes are not in use
ModelsIdle ==
    /\ d = <<>>
    /\ d_in = <<>>
    /\ result = NoResult
    /\ caught = ""
    /\ op = "none"
    /\ sats = NotRead
    /\ nassign = 0

InitCodec ==
    /\ ModelsIdle
    /\ decoded = NotCalled
    /\ encoded = NotCalled
    /\ \/ /\ url \in Urls
          /\ lnurl = <<>>
          /\ origin = "none"
          /\ cpc = "start"
       \/ /\ url = <<>>
          /\ lnurl \in ForeignStrings
          /\ origin = "foreign"
          /\ cpc = "encoded"

UrlEncode ==
    /\ cpc = "start"
    /\ encoded' = _url_encode(url)
    /\ IF encoded'.kind = "return"
       THEN lnurl' = encoded'.val /\ origin' = "url_encode" /\ cpc' = "encoded"
       ELSE lnurl' = lnurl /\ origin' = origin /\ cpc' = "failed"
    /\ UNCHANGED <<url, decoded>>
    /\ UNCHANGED modelVars

\* the number of times s starts with lightning:
RECURSIVE SchemePrefixes(_)
SchemePrefixes(s) ==
    IF startswith(s, LIGHTNING)
    THEN 1 + SchemePrefixes(SubSeq(s, Len(LIGHTNING) + 1, Len(s)))
    ELSE 0

AddScheme ==
    /\ cpc = "encoded"
    /\ SchemePrefixes(lnurl) < MaxSchemePrefixes
    /\ lnurl' = LIGHTNING \o lnurl
    /\ UNCHANGED <<url, encoded, origin, decoded, cpc>>
    /\ UNCHANGED modelVars

Damage(i, c) ==
    /\ cpc = "encoded"
    /\ origin # "damaged"
    /\ SchemePrefixes(lnurl) = 0
    /\ i \in 1..Len(lnurl)
    /\ lnurl[i] # c
    /\ lnurl' = [lnurl EXCEPT ![i] = c]
    /\ origin' = "damaged"
    /\ UNCHANGED <<url, encoded, decoded, cpc>>
    /\ UNCHANGED modelVars

LnurlDecode ==
    /\ cpc = "encoded"
    /\ decoded' = _lnurl_decode(lnurl)
    /\ cpc' = "decoded"
    /\ UNCHANGED <<url, encoded, lnurl, origin>>
    /\ UNCHANGED modelVars

NextCodec ==
    \/ UrlEncode
    \/ AddScheme
    \/ \E i \in 1..Bech32MaxLen, c \in DamageChars : Damage(i, c)
    \/ LnurlDecode

SpecCodec == InitCodec /\ [][NextCodec]_vars

----------------------------------------------------------------------------
(* Properties of the codec, under SpecCodec *)

\* LNURL1
S_LNURL1 == <<76, 78, 85, 82, 76, 49>>

PrintableAscii(u) == \A i \in 1..Len(u) : u[i] >= 32 /\ u[i] <= 126

\* C8: _url_encode's output is all uppercase and begins with LNURL1; and for a
\* printable-ASCII URL whose encoding is no longer than bech32 accepts,
\* decoding the encoding, with or without lightning: in front, gives the URL.
C8_RoundTrip ==
    /\ encoded.kind = "return"
          => /\ \A i \in 1..Len(encoded.val) : ~(encoded.val[i] >= 97 /\ encoded.val[i] <= 122)
             /\ startswith(encoded.val, S_LNURL1)
    /\ (/\ cpc = "decoded"
        /\ origin = "url_encode"
        /\ PrintableAscii(url)
        /\ Len(encoded.val) <= Bech32MaxLen)
          => decoded.kind = "return" /\ decoded.val = url

C8_Witness ==
    /\ cpc = "decoded"
    /\ origin = "url_encode"
    /\ Len(url) = LongestFitting
    /\ PrintableAscii(url)
    /\ Len(encoded.val) <= Bech32MaxLen
    /\ startswith(lnurl, LIGHTNING)
    /\ decoded.kind = "return"
    /\ decoded.val = url

\* C9: every failure of _lnurl_decode is a ValueError; a data part that does
\* not regroup into bytes of valid UTF-8 fails with the invalid-LNURL error.
C9_FailuresAreCodecErrors ==
    (cpc = "decoded" /\ decoded.kind = "raise")
        => /\ decoded.exc = "ValueError"
           /\ LET stripped == IF startswith(lnurl, LIGHTNING) THEN replace(lnurl, LIGHTNING)
                              ELSE lnurl
                  r == bech32_decode(stripped)
              IN (r.ok /\ r.hrp = LNURL_HRP) => decoded.msg = INVALID_LNURL

====
